---- MODULE Spec2Model ----
(***************************************************************************)
(* Model of StandardVersionControl (src/modules/version_service.py): the   *)
(* version ledger of the standards files, its durable JSON file, the       *)
(* snapshot directory and the live artifact files.                         *)
(*                                                                         *)
(* Strings that the code builds and parses (version ids, backup names) are *)
(* sequences of one-character strings, so that formatting and parsing are  *)
(* computed as the code computes them.  File contents are small numbers:   *)
(* 0 is the empty file, which is also what a copy interrupted right after  *)
(* the destination was opened for writing leaves behind.                   *)
(***************************************************************************)
EXTENDS Integers, Sequences, FiniteSets, TLC

\* ------------------------------------------------------------------ bounds
MaxVersions == 2
MaxHistory == 4
MaxContent == 1
MaxFaults == 1
MaxCreates == 3
MaxSteps == 3
MaxArchives == 1
MaxLoaded == 3
MaxRun == 10
MaxMixed == 5
MaxLine == 2
MaxText == 14
MaxShared == 2
MaxUnsaved == 2

\* -------------------------------------------------------- the environment
Controllers == {"vc"}
Instances == {"vc", "vc2"}
Paths == {<<"core_standards.md">>, <<"docs", "core_standards.md">>}
Contents == 0..MaxContent
NoFile == -1
FileStates == Contents \cup {NoFile}
Texts == 0..MaxText
VersionTypes == {"major", "minor", "patch"}

SaveIO == {"ok", "open_error", "write_error"}
BackupIO == {"ok", "vanished", "open_error", "write_error"}
RestoreIO == {"ok", "open_error", "write_error"}
ArchiveIO == {"ok", "open_error"}

\* ------------------------------------------------- strings and version ids
Digits == <<"0", "1", "2", "3", "4", "5", "6", "7", "8", "9">>

RECURSIVE str(_)
str(n) == IF n < 10 THEN <<Digits[n + 1]>>
          ELSE str(n \div 10) \o <<Digits[(n % 10) + 1]>>

DigitValue(ch) == CHOOSE d \in 0..9 : Digits[d + 1] = ch

RECURSIVE int(_)
int(s) == IF Len(s) = 1 THEN DigitValue(s[1])
          ELSE 10 * int(SubSeq(s, 1, Len(s) - 1)) + DigitValue(s[Len(s)])

RECURSIVE lstrip_v(_)
lstrip_v(s) == IF s # <<>> /\ Head(s) = "v" THEN lstrip_v(Tail(s)) ELSE s

\* s.split('.') : the pieces between the dots, as a sequence of strings
RECURSIVE split_dot(_)
split_dot(s) ==
    IF \E i \in 1..Len(s) : s[i] = "."
    THEN LET i == CHOOSE k \in 1..Len(s) :
                     s[k] = "." /\ \A j \in 1..(k - 1) : s[j] # "."
         IN  <<SubSeq(s, 1, i - 1)>> \o split_dot(SubSeq(s, i + 1, Len(s)))
    ELSE <<s>>

\* the sort key  [int(x) for x in v['version_id'].lstrip('v').split('.')]
VersionKey(version_id) ==
    LET pieces == split_dot(lstrip_v(version_id))
    IN  [i \in 1..Len(pieces) |-> int(pieces[i])]

\* Python's order on lists of integers
RECURSIVE ListLess(_, _)
ListLess(a, b) ==
    IF a = <<>> THEN b # <<>>
    ELSE IF b = <<>> THEN FALSE
    ELSE IF a[1] # b[1] THEN a[1] < b[1]
    ELSE ListLess(Tail(a), Tail(b))

\* f"v{major}.{minor}.{patch}"
FormatVersion(major, minor, patch) ==
    <<"v">> \o str(major) \o <<".">> \o str(minor) \o <<".">> \o str(patch)

InitialVersionId == <<"v", "1", ".", "0", ".", "0">>

RECURSIVE PadParts(_)
PadParts(parts) == IF Len(parts) < 3 THEN PadParts(Append(parts, 0)) ELSE parts

_increment_version(version, version_type) ==
    LET parts == PadParts(VersionKey(version))
        major == parts[1]
        minor == parts[2]
        patch == parts[3]
    IN  IF version_type = "major" THEN FormatVersion(major + 1, 0, 0)
        ELSE IF version_type = "minor" THEN FormatVersion(major, minor + 1, 0)
        ELSE FormatVersion(major, minor, patch + 1)

\* hashlib.sha256(bytes).hexdigest(): distinct contents, distinct digests
sha256(content) == <<"sha256", content>>

\* Path(file_path).name
PathName(path) == path[Len(path)]

\* f"{source_path.name}.{version_id}"
BackupName(path, version_id) == <<PathName(path), ".">> \o version_id

\* ------------------------------------------------------------------- state
VARIABLES
    versions,   \* self.versions of each controller: [versions, history]
    disk,       \* standards_versions.json under the repository root
    files,      \* the live artifact files: content or NoFile
    backups,    \* version_backups/: backup name -> content
    last,       \* the call that was made last and what it reported
    faults      \* how many I/O operations have failed so far

vars == <<versions, disk, files, backups, last, faults>>

EmptyLedger == [versions |-> <<>>, history |-> <<>>]


\* ------------------------------------------------------- ledger operations
\* sorted(versions, key=VersionKey, reverse=...)[0]: Python's sort is stable,
\* also with reverse=True, so the result is the first version, in list order,
\* among those whose key is the greatest (reverse) or the least (not reverse).
SortedFirst(vs, reverse) ==
    LET Before(a, b) == IF reverse THEN ListLess(b, a) ELSE ListLess(a, b)
        key(i) == VersionKey(vs[i].version_id)
    IN  CHOOSE i \in 1..Len(vs) :
            /\ \A j \in 1..Len(vs) : ~Before(key(j), key(i))
            /\ \A j \in 1..(i - 1) : Before(key(i), key(j))

\* the order of Python's str on the characters of version ids
CharOrder == <<".", "0", "1", "2", "3", "4", "5", "6", "7", "8", "9", "v">>

CharRank(ch) == CHOOSE k \in 1..Len(CharOrder) : CharOrder[k] = ch

RECURSIVE StrLess(_, _)
StrLess(a, b) ==
    IF a = <<>> THEN b # <<>>
    ELSE IF b = <<>> THEN FALSE
    ELSE IF a[1] # b[1] THEN CharRank(a[1]) < CharRank(b[1])
    ELSE StrLess(Tail(a), Tail(b))

\* mutant: max(versions, key=lambda v: v['version_id']), the ids compared as
\* strings
_get_latest_version_by_string(vs) ==
    IF vs = <<>> THEN 0
    ELSE CHOOSE i \in 1..Len(vs) :
             \A j \in 1..Len(vs) :
                 j = i \/ StrLess(vs[j].version_id, vs[i].version_id)

\* mutant: the sort without reverse=True, which yields the oldest version
_get_latest_version_ascending(vs) ==
    IF vs = <<>> THEN 0 ELSE SortedFirst(vs, FALSE)

\* index of the latest version, 0 for None
_get_latest_version(vs) ==
    IF vs = <<>> THEN 0 ELSE SortedFirst(vs, TRUE)

\* index of the first version with this id, 0 for None
_find_version(vs, version_id) ==
    IF \E i \in 1..Len(vs) : vs[i].version_id = version_id
    THEN CHOOSE i \in 1..Len(vs) :
             /\ vs[i].version_id = version_id
             /\ \A j \in 1..(i - 1) : vs[j].version_id # version_id
    ELSE 0

\* mutant: the existence check without the hash comparison
_verify_version_exists_only(fs, version) ==
    fs[version.file] # NoFile

_verify_version_integrity(fs, version) ==
    IF fs[version.file] = NoFile THEN FALSE
    ELSE IF sha256(fs[version.file]) # version.hash THEN FALSE
    ELSE TRUE

\* mutant: the entry is put in front of the list
_add_history_in_front(led, entry) ==
    [led EXCEPT !.history = <<entry>> \o @]

_add_history(led, entry) ==
    [led EXCEPT !.history = Append(@, entry)]

\* datetime.now().isoformat() as a logical clock: every event that a ledger
\* records is a tick, so that a later version never has an earlier timestamp
now(led) == Len(led.history)

HistoryEntry(action, version_id) ==
    [action |-> action, version_id |-> version_id]

\* json.dump into the file opened with 'w': an error at open leaves the file
\* as it was, an error after the open leaves a truncated, unparseable file;
\* either error is logged and swallowed.
\* mutant: a save that keeps the versions and the history the file holds and
\* the ledger does not
_save_versions_merging(led, dsk, io) ==
    IF io = "ok"
    THEN [kind |-> "json",
          data |-> [versions |-> SelectSeq(dsk.data.versions,
                                     LAMBDA v : \A i \in 1..Len(led.versions) :
                                                   led.versions[i] # v)
                                     \o led.versions,
                    history |-> led.history]]
    ELSE IF io = "open_error" THEN dsk
    ELSE [kind |-> "invalid", data |-> EmptyLedger]

_save_versions(led, dsk, io) ==
    IF io = "ok" THEN [kind |-> "json", data |-> led]
    ELSE IF io = "open_error" THEN dsk
    ELSE [kind |-> "invalid", data |-> EmptyLedger]

PutFile(dir, name, content) ==
    [n \in (DOMAIN dir) \cup {name} |-> IF n = name THEN content ELSE dir[n]]

\* the copies of ledger files in version_backups/
Archives(bk) == {name \in DOMAIN bk : Head(name) = "standards_versions.json"}

\* f"{VERSION_FILE}.{timestamp}.bak": the time of an archive is the number of
\* archives made before it, so that no two archives have the same name
ArchiveName(bk) ==
    <<"standards_versions.json", ".">> \o str(Cardinality(Archives(bk)))
        \o <<".", "b", "a", "k">>

\* shutil.copy2 of the ledger file into version_backups/; an error of the
\* copy is not caught
_backup_corrupt_file(dsk, bk, io) ==
    IF io = "ok"
    THEN [result |-> "ok", backups |-> PutFile(bk, ArchiveName(bk), dsk)]
    ELSE [result |-> "OSError", backups |-> bk]

\* what json.load makes of a file that holds JSON but no ledger, {} for one
OtherJson == [history |-> <<>>]

\* [result, versions, backups] of _load_versions: the ledger file is absent,
\* holds a ledger ("json"), holds JSON that is no ledger ("other_json"), holds
\* no JSON ("invalid", the one case with an except clause) or cannot be read
\* ("unreadable")
_load_versions(dsk, bk, io) ==
    IF dsk.kind = "json"
    THEN [result |-> "ok", versions |-> dsk.data, backups |-> bk]
    ELSE IF dsk.kind = "other_json"
    THEN [result |-> "ok", versions |-> OtherJson, backups |-> bk]
    ELSE IF dsk.kind = "unreadable"
    THEN [result |-> "OSError", versions |-> EmptyLedger, backups |-> bk]
    ELSE IF dsk.kind = "invalid"
    THEN [result |-> _backup_corrupt_file(dsk, bk, io).result,
          versions |-> EmptyLedger,
          backups |-> _backup_corrupt_file(dsk, bk, io).backups]
    ELSE [result |-> "ok", versions |-> EmptyLedger, backups |-> bk]

\* the rest of __init__, loaded being what _load_versions did: the log line
\* reads self.versions['versions']
Loaded(loaded) ==
    IF loaded.result = "ok" /\ "versions" \notin DOMAIN loaded.versions
    THEN [loaded EXCEPT !.result = "KeyError"]
    ELSE loaded

\* [result, versions, backups] of the constructor; a result other than "ok"
\* is the error it raises, and then there is no controller
__init__(dsk, bk, io) == Loaded(_load_versions(dsk, bk, io))

\* shutil.copy2(source_path, backup_path), errors logged and swallowed
_backup_version(fs, bk, file_path, version_id, io) ==
    IF fs[file_path] = NoFile THEN bk
    ELSE IF io = "ok"
         THEN PutFile(bk, BackupName(file_path, version_id), fs[file_path])
    ELSE IF io = "write_error"
         THEN PutFile(bk, BackupName(file_path, version_id), 0)
    ELSE bk

\* [ok, files]: whether the snapshot was copied back, and the live files after
_restore_from_backup(vs, fs, bk, version_id, io) ==
    LET i == _find_version(vs, version_id)
    IN  IF i = 0 THEN [ok |-> FALSE, files |-> fs]
        ELSE LET file_path == vs[i].file
                 backup_name == BackupName(file_path, version_id)
             IN  IF backup_name \notin DOMAIN bk
                 THEN [ok |-> FALSE, files |-> fs]
                 ELSE IF io = "ok"
                 THEN [ok |-> TRUE,
                       files |-> [fs EXCEPT ![file_path] = bk[backup_name]]]
                 ELSE IF io = "write_error"
                 THEN [ok |-> FALSE, files |-> [fs EXCEPT ![file_path] = 0]]
                 ELSE [ok |-> FALSE, files |-> fs]

\* mutant: the target is switched on and the others are left as they are
SetActiveKeepOthers(vs, version_id) ==
    [i \in 1..Len(vs) |->
        [vs[i] EXCEPT !.active = (@ \/ vs[i].version_id = version_id)]]

\* mutant: the comparison inverted
SetActiveInverted(vs, version_id) ==
    [i \in 1..Len(vs) |->
        [vs[i] EXCEPT !.active = (vs[i].version_id # version_id)]]

\* mutant: an activation also takes the stable mark away
SetActiveResetStable(vs, version_id) ==
    [i \in 1..Len(vs) |->
        [vs[i] EXCEPT !.active = (vs[i].version_id = version_id),
                      !.stable = FALSE]]

\* for v in versions: v['active'] = (v['version_id'] == version_id)
SetActive(vs, version_id) ==
    [i \in 1..Len(vs) |->
        [vs[i] EXCEPT !.active = (vs[i].version_id = version_id)]]

\* [result, ledger, disk] of activate_version
\* mutant: an activation that records nothing in the history
activate_version_unrecorded(led, fs, dsk, version_id, save_io) ==
    LET i == _find_version(led.versions, version_id)
    IN  IF i = 0
        THEN [result |-> "VersionNotFoundError", ledger |-> led, disk |-> dsk]
        ELSE IF ~_verify_version_integrity(fs, led.versions[i])
        THEN [result |-> "VersionIntegrityError", ledger |-> led, disk |-> dsk]
        ELSE LET led1 == [led EXCEPT !.versions = SetActive(@, version_id)]
             IN  [result |-> "ok", ledger |-> led1,
                  disk |-> _save_versions(led1, dsk, save_io)]

activate_version(led, fs, dsk, version_id, save_io) ==
    LET i == _find_version(led.versions, version_id)
    IN  IF i = 0
        THEN [result |-> "VersionNotFoundError", ledger |-> led, disk |-> dsk]
        ELSE IF ~_verify_version_integrity(fs, led.versions[i])
        THEN [result |-> "VersionIntegrityError", ledger |-> led, disk |-> dsk]
        ELSE LET led1 == [led EXCEPT !.versions = SetActive(@, version_id)]
                 led2 == _add_history(led1, HistoryEntry("activate", version_id))
             IN  [result |-> "ok", ledger |-> led2,
                  disk |-> _save_versions(led2, dsk, save_io)]

\* mutant: an id that is not recorded is reported like an unrecoverable version
rollback_to_version_conflated(led, fs, bk, dsk, version_id, restore_io, save_io) ==
    LET i == _find_version(led.versions, version_id)
        unchanged(result) ==
            [result |-> result, ledger |-> led, disk |-> dsk, files |-> fs]
    IN  IF i = 0 THEN unchanged("VersionIntegrityError")
        ELSE
        LET intact == _verify_version_integrity(fs, led.versions[i])
            restored == _restore_from_backup(led.versions, fs, bk,
                                             version_id, restore_io)
        IN  IF ~intact /\ ~restored.ok
            THEN [unchanged("VersionIntegrityError")
                      EXCEPT !.files = restored.files]
            ELSE
            LET fs1 == IF intact THEN fs ELSE restored.files
                act == activate_version(led, fs1, dsk, version_id, save_io)
            IN  IF act.result # "ok"
                THEN [result |-> act.result, ledger |-> led, disk |-> dsk,
                      files |-> fs1]
                ELSE [result |-> "ok",
                      ledger |-> _add_history(act.ledger,
                                     HistoryEntry("rollback", version_id)),
                      disk |-> act.disk,
                      files |-> fs1]

\* [result, ledger, disk, files] of rollback_to_version
rollback_to_version(led, fs, bk, dsk, version_id, restore_io, save_io) ==
    LET i == _find_version(led.versions, version_id)
        unchanged(result) ==
            [result |-> result, ledger |-> led, disk |-> dsk, files |-> fs]
    IN  IF i = 0 THEN unchanged("VersionNotFoundError")
        ELSE
        LET intact == _verify_version_integrity(fs, led.versions[i])
            restored == _restore_from_backup(led.versions, fs, bk,
                                             version_id, restore_io)
        IN  IF ~intact /\ ~restored.ok
            THEN [unchanged("VersionIntegrityError")
                      EXCEPT !.files = restored.files]
            ELSE
            LET fs1 == IF intact THEN fs ELSE restored.files
                act == activate_version(led, fs1, dsk, version_id, save_io)
            IN  IF act.result # "ok"
                THEN [result |-> act.result, ledger |-> led, disk |-> dsk,
                      files |-> fs1]
                ELSE [result |-> "ok",
                      ledger |-> _add_history(act.ledger,
                                     HistoryEntry("rollback", version_id)),
                      disk |-> act.disk,
                      files |-> fs1]

get_stable_versions(vs) == SelectSeq(vs, LAMBDA v : v.stable)


\* [result, version_id, ledger, disk, files, backups] of create_version; the
\* environment may remove the artifact between the hashing and the snapshot
\* (backup_io = "vanished").
create_version(led, fs, bk, dsk, standard_path, version_type, save_io, backup_io) ==
    IF fs[standard_path] = NoFile
    THEN [result |-> "FileNotFoundError", version_id |-> <<>>, ledger |-> led,
          disk |-> dsk, files |-> fs, backups |-> bk]
    ELSE
    LET content_hash == sha256(fs[standard_path])
        last_version == _get_latest_version(led.versions)
        version_id ==
            IF last_version # 0
            THEN _increment_version(led.versions[last_version].version_id,
                                    version_type)
            ELSE InitialVersionId
        new_version == [version_id |-> version_id, file |-> standard_path,
                        hash |-> content_hash, timestamp |-> now(led),
                        active |-> FALSE, stable |-> FALSE]
        led1 == [led EXCEPT !.versions = Append(@, new_version)]
        led2 == _add_history(led1, HistoryEntry("create", version_id))
        fs1 == IF backup_io = "vanished"
               THEN [fs EXCEPT ![standard_path] = NoFile] ELSE fs
    IN  [result |-> "ok", version_id |-> version_id, ledger |-> led2,
         disk |-> _save_versions(led2, dsk, save_io),
         files |-> fs1,
         backups |-> _backup_version(fs1, bk, standard_path, version_id,
                                     backup_io)]

\* mutant: marking a version also stamps it with the time of the call
mark_as_stable_restamped(led, dsk, version_id, save_io) ==
    LET i == _find_version(led.versions, version_id)
    IN  IF i = 0
        THEN [result |-> "VersionNotFoundError", ledger |-> led, disk |-> dsk]
        ELSE LET led1 == [led EXCEPT !.versions[i].stable = TRUE,
                                     !.versions[i].timestamp = now(led)]
                 led2 == _add_history(led1,
                                      HistoryEntry("mark_stable", version_id))
             IN  [result |-> "ok", ledger |-> led2,
                  disk |-> _save_versions(led2, dsk, save_io)]

\* mutant: a mark that flips the flag, so that a second call takes it back
mark_as_stable_toggling(led, dsk, version_id, save_io) ==
    LET i == _find_version(led.versions, version_id)
    IN  IF i = 0
        THEN [result |-> "VersionNotFoundError", ledger |-> led, disk |-> dsk]
        ELSE LET led1 == [led EXCEPT !.versions[i].stable = ~@]
                 led2 == _add_history(led1,
                                      HistoryEntry("mark_stable", version_id))
             IN  [result |-> "ok", ledger |-> led2,
                  disk |-> _save_versions(led2, dsk, save_io)]

\* [result, ledger, disk] of mark_as_stable
mark_as_stable(led, dsk, version_id, save_io) ==
    LET i == _find_version(led.versions, version_id)
    IN  IF i = 0
        THEN [result |-> "VersionNotFoundError", ledger |-> led, disk |-> dsk]
        ELSE LET led1 == [led EXCEPT !.versions[i].stable = TRUE]
                 led2 == _add_history(led1,
                                      HistoryEntry("mark_stable", version_id))
             IN  [result |-> "ok", ledger |-> led2,
                  disk |-> _save_versions(led2, dsk, save_io)]

\* mutant: the stable versions sorted without reverse=True
rollback_to_last_stable_ascending(led, fs, bk, dsk, restore_io, save_io) ==
    LET stable_versions == get_stable_versions(led.versions)
    IN  IF stable_versions = <<>>
        THEN [result |-> "None", version_id |-> <<>>, ledger |-> led,
              disk |-> dsk, files |-> fs]
        ELSE LET latest_stable ==
                     stable_versions[SortedFirst(stable_versions, FALSE)]
                 rb == rollback_to_version(led, fs, bk, dsk,
                           latest_stable.version_id, restore_io, save_io)
             IN  [result |-> rb.result,
                  version_id |-> latest_stable.version_id,
                  ledger |-> rb.ledger, disk |-> rb.disk, files |-> rb.files]

\* mutant: without a stable version the latest version is rolled back to
rollback_to_last_stable_or_latest(led, fs, bk, dsk, restore_io, save_io) ==
    LET stable_versions ==
            IF get_stable_versions(led.versions) = <<>> THEN led.versions
            ELSE get_stable_versions(led.versions)
    IN  IF stable_versions = <<>>
        THEN [result |-> "None", version_id |-> <<>>, ledger |-> led,
              disk |-> dsk, files |-> fs]
        ELSE LET latest_stable ==
                     stable_versions[SortedFirst(stable_versions, TRUE)]
                 rb == rollback_to_version(led, fs, bk, dsk,
                           latest_stable.version_id, restore_io, save_io)
             IN  [result |-> rb.result,
                  version_id |-> latest_stable.version_id,
                  ledger |-> rb.ledger, disk |-> rb.disk, files |-> rb.files]

\* [result, version_id, ledger, disk, files] of rollback_to_last_stable;
\* result "None" is the return value None when no version is stable
rollback_to_last_stable(led, fs, bk, dsk, restore_io, save_io) ==
    LET stable_versions == get_stable_versions(led.versions)
    IN  IF stable_versions = <<>>
        THEN [result |-> "None", version_id |-> <<>>, ledger |-> led,
              disk |-> dsk, files |-> fs]
        ELSE LET latest_stable ==
                     stable_versions[SortedFirst(stable_versions, TRUE)]
                 rb == rollback_to_version(led, fs, bk, dsk,
                           latest_stable.version_id, restore_io, save_io)
             IN  [result |-> rb.result,
                  version_id |-> latest_stable.version_id,
                  ledger |-> rb.ledger, disk |-> rb.disk, files |-> rb.files]

\* f.readlines(): the contents number the texts whose lines are among "1",
\* ..., str(MaxLine), the shorter first: 0 is the empty file, 1 the line "1",
\* MaxLine + 1 the two lines "1", "1"
RECURSIVE readlines(_)
readlines(content) ==
    IF content = 0 THEN <<>>
    ELSE LET line == ((content - 1) % MaxLine) + 1
         IN  Append(readlines((content - line) \div MaxLine),
                    str(line) \o <<"\n">>)

\* ''.join(lines)
RECURSIVE join(_)
join(lines) == IF lines = <<>> THEN <<>> ELSE Head(lines) \o join(Tail(lines))

\* difflib.SequenceMatcher.find_longest_match: <<i, j, k>> with
\* a[i..i+k-1] = b[j..j+k-1], k the greatest, then i the least, then j the
\* least; <<1, 1, 0>> when nothing matches
find_longest_match(a, b) ==
    LET blocks == {blk \in (1..Len(a)) \X (1..Len(b)) \X (1..Len(a)) :
                      /\ blk[1] + blk[3] - 1 <= Len(a)
                      /\ blk[2] + blk[3] - 1 <= Len(b)
                      /\ SubSeq(a, blk[1], blk[1] + blk[3] - 1)
                             = SubSeq(b, blk[2], blk[2] + blk[3] - 1)}
        Better(x, y) ==
            \/ x[3] > y[3]
            \/ x[3] = y[3] /\ x[1] < y[1]
            \/ x[3] = y[3] /\ x[1] = y[1] /\ x[2] < y[2]
    IN  IF blocks = {} THEN <<1, 1, 0>>
        ELSE CHOOSE x \in blocks : \A y \in blocks \ {x} : Better(x, y)

\* the total size of SequenceMatcher(None, a, b).get_matching_blocks(): the
\* longest match, then the same to its left and to its right
RECURSIVE matching_size(_, _)
matching_size(a, b) ==
    LET blk == find_longest_match(a, b)
        i == blk[1]
        j == blk[2]
        k == blk[3]
    IN  IF k = 0 THEN 0
        ELSE k + matching_size(SubSeq(a, 1, i - 1), SubSeq(b, 1, j - 1))
               + matching_size(SubSeq(a, i + k, Len(a)),
                               SubSeq(b, j + k, Len(b)))

\* matcher.ratio() * 100, in hundredths of a percent: 2.0 * matches / length,
\* 1.0 for two empty texts
similarity(text1, text2) ==
    IF Len(text1) + Len(text2) = 0 THEN 10000
    ELSE (20000 * matching_size(text1, text2)) \div (Len(text1) + Len(text2))

\* the lines of difflib.unified_diff(content1, content2) that start with
\* sign: none for equal contents, else the header line ("+++ ..." or
\* "--- ...") and one line for every line that has no match, of content2 for
\* "+" and of content1 for "-"
unified_diff_count(content1, content2, sign) ==
    IF content1 = content2 THEN 0
    ELSE 1 + Len(IF sign = "+" THEN content2 ELSE content1)
           - matching_size(content1, content2)

\* whether _restore_from_backup(version_id) gets to copy the snapshot back
RestoreReached(vs, fs, bk, version_id) ==
    LET i == _find_version(vs, version_id)
    IN  /\ i # 0
        /\ fs[vs[i].file] = NoFile
        /\ BackupName(vs[i].file, version_id) \in DOMAIN bk

\* the outcome of the copies a call has made: "none" without a copy, the
\* error if one of them failed
Outcome(ios) ==
    IF ios = {} THEN "none"
    ELSE IF ios \subseteq {"ok", "none"} THEN "ok"
    ELSE CHOOSE io \in ios : io \notin {"ok", "none"}

\* mutant: the snapshot is copied back whether the live file is there or not
RestoreIfMissing_or_present(vs, fs, bk, version_id, io) ==
    [files |-> _restore_from_backup(vs, fs, bk, version_id, "ok").files,
     restore_io |-> IF RestoreReached(vs, fs, bk, version_id)
                    THEN io ELSE "none"]

\* if not file_path.exists(): self._restore_from_backup(version_id); the live
\* files after it and the outcome of the copy, "none" if none was made
RestoreIfMissing(vs, fs, bk, version_id, io) ==
    IF RestoreReached(vs, fs, bk, version_id)
    THEN [files |-> _restore_from_backup(vs, fs, bk, version_id, io).files,
          restore_io |-> io]
    ELSE [files |-> fs, restore_io |-> "none"]

\* the dict compare_versions returns for the contents of the two live files
DiffOf(version_id1, version_id2, content1, content2) ==
    [version1 |-> version_id1, version2 |-> version_id2,
     similarity |-> similarity(join(content1), join(content2)),
     additions |-> unified_diff_count(content1, content2, "+"),
     deletions |-> unified_diff_count(content1, content2, "-")]

\* compare_versions from the second existence check on; fs are the live files
\* and ios the outcomes of the copies after the attempts to restore
CompareFiles(version1, version2, fs, ios) ==
    IF fs[version1.file] = NoFile \/ fs[version2.file] = NoFile
    THEN [result |-> "FileNotFoundError", files |-> fs,
          returned |-> <<>>, restore_io |-> Outcome(ios)]
    ELSE [result |-> "ok", files |-> fs,
          returned |-> DiffOf(version1.version_id, version2.version_id,
                              readlines(fs[version1.file]),
                              readlines(fs[version2.file])),
          restore_io |-> Outcome(ios)]

\* compare_versions after the attempts to restore the files of version1 (its
\* outcome io1) and of version2
CompareSecond(version1, version2, io1, restored2) ==
    CompareFiles(version1, version2, restored2.files,
                 {io1, restored2.restore_io} \ {"none"})

\* compare_versions after the attempt to restore the file of version1
CompareRestored(vs, bk, version1, version2, restored1, io2) ==
    CompareSecond(version1, version2, restored1.restore_io,
        RestoreIfMissing(vs, restored1.files, bk, version2.version_id, io2))

\* mutant: the file of version1 is restored before version2 is looked up
compare_versions_restoring_first(led, fs, bk, version_id1, version_id2, restore_io) ==
    IF _find_version(led.versions, version_id1) = 0
    THEN [result |-> "VersionNotFoundError", files |-> fs,
          returned |-> <<>>, restore_io |-> "none"]
    ELSE IF _find_version(led.versions, version_id2) = 0
    THEN [result |-> "VersionNotFoundError",
          files |-> RestoreIfMissing(led.versions, fs, bk, version_id1,
                                     restore_io[version_id1]).files,
          returned |-> <<>>, restore_io |-> "none"]
    ELSE CompareRestored(led.versions, bk,
             led.versions[_find_version(led.versions, version_id1)],
             led.versions[_find_version(led.versions, version_id2)],
             RestoreIfMissing(led.versions, fs, bk, version_id1,
                              restore_io[version_id1]),
             restore_io[version_id2])

\* [result, files, returned, restore_io] of compare_versions; restore_io[id]
\* is the outcome the copy of the snapshot of the version id has if it is made
compare_versions(led, fs, bk, version_id1, version_id2, restore_io) ==
    IF \/ _find_version(led.versions, version_id1) = 0
       \/ _find_version(led.versions, version_id2) = 0
    THEN [result |-> "VersionNotFoundError", files |-> fs,
          returned |-> <<>>, restore_io |-> "none"]
    ELSE CompareRestored(led.versions, bk,
             led.versions[_find_version(led.versions, version_id1)],
             led.versions[_find_version(led.versions, version_id2)],
             RestoreIfMissing(led.versions, fs, bk, version_id1,
                              restore_io[version_id1]),
             restore_io[version_id2])

\* sorted(versions, key=VersionKey): the first of the least versions, then the
\* others sorted
RECURSIVE sorted(_)
sorted(vs) ==
    IF vs = <<>> THEN <<>>
    ELSE LET i == SortedFirst(vs, FALSE)
         IN  <<vs[i]>> \o sorted(SubSeq(vs, 1, i - 1)
                                  \o SubSeq(vs, i + 1, Len(vs)))

\* mutant: an id that is not there counts as the first place
IndexOr_first(vs, version_id, default) ==
    IF version_id = <<>> THEN default
    ELSE IF _find_version(vs, version_id) # 0
    THEN _find_version(vs, version_id)
    ELSE 1

\* the loops that look from_version and to_version up: the place of the first
\* version with this id, the default for None and for an id that is not there
IndexOr(vs, version_id, default) ==
    IF version_id # <<>> /\ _find_version(vs, version_id) # 0
    THEN _find_version(vs, version_id)
    ELSE default

\* "## {version_id} ({timestamp}) [{stability}] {active}"
VersionSection(v) ==
    [section |-> "version", version_id |-> v.version_id,
     timestamp |-> v.timestamp, stable |-> v.stable, active |-> v.active]

\* the lines about the difference to the previous version: what
\* compare_versions returned, or that it raised an error
DiffSection(version_id1, version_id2, diff) ==
    [section |-> "diff", version1 |-> version_id1, version2 |-> version_id2,
     result |-> diff.result, returned |-> diff.returned]

\* mutant: a comparison that fails leaves no lines in the changelog
SectionWithDiff_unnoted(vs, i, log, diff) ==
    [changelog |-> log.changelog
                       \o <<VersionSection(vs[i])>>
                       \o (IF diff.result = "ok"
                           THEN <<DiffSection(vs[i - 1].version_id,
                                              vs[i].version_id, diff)>>
                           ELSE <<>>),
     files |-> diff.files,
     ios |-> log.ios \cup {diff.restore_io}]

\* one round of the loop for a place that is neither the first of the list
\* nor the first of the range, diff being what compare_versions did
SectionWithDiff(vs, i, log, diff) ==
    [changelog |-> log.changelog
                       \o <<VersionSection(vs[i]),
                            DiffSection(vs[i - 1].version_id,
                                        vs[i].version_id, diff)>>,
     files |-> diff.files,
     ios |-> log.ios \cup {diff.restore_io}]

\* mutant: the loop with "if i > 0" alone, which also compares the first
\* version of the range with the one before it
Section_before_range(led, vs, i, start_idx, bk, restore_io, log) ==
    IF i > 1
    THEN SectionWithDiff(vs, i, log,
             compare_versions(led, log.files, bk, vs[i - 1].version_id,
                              vs[i].version_id, restore_io))
    ELSE [log EXCEPT !.changelog = Append(@, VersionSection(vs[i]))]

\* one round of the loop over range(start_idx, end_idx + 1); log is the
\* changelog so far, with the live files and the outcomes of the copies
Section(led, vs, i, start_idx, bk, restore_io, log) ==
    IF i > 1 /\ i > start_idx
    THEN SectionWithDiff(vs, i, log,
             compare_versions(led, log.files, bk, vs[i - 1].version_id,
                              vs[i].version_id, restore_io))
    ELSE [log EXCEPT !.changelog = Append(@, VersionSection(vs[i]))]

RECURSIVE Sections(_, _, _, _, _, _, _, _)
Sections(led, vs, i, start_idx, end_idx, bk, restore_io, log) ==
    IF i > end_idx THEN log
    ELSE Sections(led, vs, i + 1, start_idx, end_idx, bk, restore_io,
                  Section(led, vs, i, start_idx, bk, restore_io, log))

\* ''.join(changelog), returned
Joined(log) ==
    [result |-> "ok", returned |-> log.changelog, files |-> log.files,
     restore_io |-> Outcome(log.ios)]

\* generate_changelog from the title on, vs being the sorted versions
ChangelogOf(led, vs, start_idx, end_idx, fs, bk, restore_io) ==
    Joined(Sections(led, vs, start_idx, start_idx, end_idx, bk, restore_io,
               [changelog |-> <<[section |-> "title",
                                 version1 |-> vs[start_idx].version_id,
                                 version2 |-> vs[end_idx].version_id]>>,
                files |-> fs, ios |-> {}]))

\* generate_changelog after the sort
ChangelogSorted(led, vs, fs, bk, from_version, to_version, restore_io) ==
    IF vs = <<>>
    THEN [result |-> "ok", returned |-> <<[section |-> "no_versions"]>>,
          files |-> fs, restore_io |-> "none"]
    ELSE ChangelogOf(led, vs, IndexOr(vs, from_version, 1),
                     IndexOr(vs, to_version, Len(vs)), fs, bk, restore_io)

\* [result, returned, files, restore_io] of generate_changelog; the changelog
\* is the sequence of its sections, the title first; <<>> is None
generate_changelog(led, fs, bk, from_version, to_version, restore_io) ==
    ChangelogSorted(led, sorted(led.versions), fs, bk, from_version,
                    to_version, restore_io)

\* ----------------------------------------------------------------- actions
NoSuchVersion == <<"v", "0", ".", "0", ".", "0">>

\* the ids a caller passes: every recorded id and one that is not recorded
VersionIdInputs(led) ==
    {led.versions[i].version_id : i \in 1..Len(led.versions)}
        \cup {NoSuchVersion}

\* a call and what it reported; version_id2 and returned are filled in by the
\* calls that take a second id and by those that return a value
Call(self, op, path, version_id, result, save_io, backup_io, restore_io) ==
    [self |-> self, op |-> op, path |-> path, version_id |-> version_id,
     version_id2 |-> <<>>, result |-> result, returned |-> <<>>,
     save_io |-> save_io, backup_io |-> backup_io, restore_io |-> restore_io]

\* the I/O errors and races of one call, counted
Faults(call) ==
    (IF call.save_io \in {"ok", "none"} THEN 0 ELSE 1)
    + (IF call.backup_io \in {"ok", "none"} THEN 0 ELSE 1)
    + (IF call.restore_io \in {"ok", "none"} THEN 0 ELSE 1)

Returns(call) ==
    /\ faults + Faults(call) <= MaxFaults
    /\ last' = call
    /\ faults' = faults + Faults(call)

Init ==
    /\ faults = 0
    /\ versions = [c \in Controllers |-> EmptyLedger]
    /\ disk = [kind |-> "absent", data |-> EmptyLedger]
    /\ files \in [Paths -> FileStates]
    /\ backups = <<>>
    /\ last = Call("vc", "__init__", <<>>, <<>>, "ok", "none", "none", "none")

\* the outcomes an I/O operation of this call may have: "none" when the call
\* does not get to it, no failure once MaxFaults failures have happened
Outcomes(reached, io) ==
    IF ~reached THEN {"none"}
    ELSE IF faults < MaxFaults THEN io
    ELSE {"ok"}

Create(c, limit) ==
    /\ Len(versions[c].versions) < limit
    /\ \E standard_path \in Paths, version_type \in VersionTypes :
         \E save_io \in Outcomes(files[standard_path] # NoFile, SaveIO),
            backup_io \in Outcomes(files[standard_path] # NoFile, BackupIO) :
           LET r == create_version(versions[c], files, backups, disk,
                        standard_path, version_type, save_io, backup_io)
           IN  /\ versions' = [versions EXCEPT ![c] = r.ledger]
               /\ disk' = r.disk
               /\ files' = r.files
               /\ backups' = r.backups
               /\ Returns(Call(c, "create_version", standard_path, r.version_id,
                               r.result, save_io, backup_io, "none"))

CreateVersion(c) ==
    /\ Len(versions[c].history) < MaxHistory
    /\ Create(c, MaxVersions)

\* the same within another bound on the history
CreateWithin(c, limit) ==
    /\ Len(versions[c].history) < limit
    /\ Create(c, MaxVersions)

\* create_version alone, for the properties of the ids it assigns
CreateOnly(c) == Create(c, MaxCreates)

Activate(c, limit) ==
    /\ Len(versions[c].history) < limit
    /\ \E version_id \in VersionIdInputs(versions[c]) :
         \E save_io \in Outcomes(
                activate_version(versions[c], files, disk, version_id,
                                 "ok").result = "ok", SaveIO) :
           LET r == activate_version(versions[c], files, disk, version_id,
                                     save_io)
           IN  /\ versions' = [versions EXCEPT ![c] = r.ledger]
               /\ disk' = r.disk
               /\ Returns(Call(c, "activate_version", <<>>, version_id, r.result,
                               save_io, "none", "none"))
               /\ UNCHANGED <<files, backups>>

ActivateVersion(c) == Activate(c, MaxHistory)

Mark(c, limit) ==
    /\ Len(versions[c].history) < limit
    /\ \E version_id \in VersionIdInputs(versions[c]) :
         \E save_io \in Outcomes(
                _find_version(versions[c].versions, version_id) # 0, SaveIO) :
           LET r == mark_as_stable(versions[c], disk, version_id, save_io)
           IN  /\ versions' = [versions EXCEPT ![c] = r.ledger]
               /\ disk' = r.disk
               /\ Returns(Call(c, "mark_as_stable", <<>>, version_id, r.result,
                               save_io, "none", "none"))
               /\ UNCHANGED <<files, backups>>

MarkAsStable(c) == Mark(c, MaxHistory)

\* whether rollback_to_version(version_id) gets to copy the snapshot back
ReachesRestore(led, fs, bk, version_id) ==
    LET i == _find_version(led.versions, version_id)
    IN  /\ i # 0
        /\ ~_verify_version_integrity(fs, led.versions[i])
        /\ BackupName(led.versions[i].file, version_id) \in DOMAIN bk

Rollback(c, limit) ==
    /\ Len(versions[c].history) + 2 <= limit
    /\ \E version_id \in VersionIdInputs(versions[c]) :
         \E restore_io \in Outcomes(
                ReachesRestore(versions[c], files, backups, version_id),
                RestoreIO) :
           \E save_io \in Outcomes(
                  rollback_to_version(versions[c], files, backups, disk,
                      version_id, restore_io, "ok").result = "ok", SaveIO) :
             LET r == rollback_to_version(versions[c], files, backups, disk,
                                          version_id, restore_io, save_io)
             IN  /\ versions' = [versions EXCEPT ![c] = r.ledger]
                 /\ disk' = r.disk
                 /\ files' = r.files
                 /\ Returns(Call(c, "rollback_to_version", <<>>, version_id,
                                 r.result, save_io, "none", restore_io))
                 /\ UNCHANGED backups

RollbackToVersion(c) == Rollback(c, MaxHistory)

\* the id rollback_to_last_stable resolves to, <<>> when no version is stable
LastStableId(led) ==
    rollback_to_last_stable(led, files, backups, disk, "ok", "ok").version_id

RollbackLastStable(c, limit) ==
    /\ Len(versions[c].history) + 2 <= limit
    /\ \E restore_io \in Outcomes(
              ReachesRestore(versions[c], files, backups,
                             LastStableId(versions[c])),
              RestoreIO) :
         \E save_io \in Outcomes(
                rollback_to_last_stable(versions[c], files, backups, disk,
                    restore_io, "ok").result = "ok", SaveIO) :
           LET r == rollback_to_last_stable(versions[c], files, backups, disk,
                                            restore_io, save_io)
           IN  /\ versions' = [versions EXCEPT ![c] = r.ledger]
               /\ disk' = r.disk
               /\ files' = r.files
               /\ Returns(Call(c, "rollback_to_last_stable", <<>>, r.version_id,
                               r.result, save_io, "none", restore_io))
               /\ UNCHANGED backups

RollbackToLastStable(c) == RollbackLastStable(c, MaxHistory)

\* the outcomes the copies of the snapshots may have during one call: all
\* succeed, or the copies of the snapshot of one version, whose live file is
\* missing, fail
RestorePlans(led) ==
    LET ids == {led.versions[i].version_id : i \in 1..Len(led.versions)}
        missing == {id \in ids :
                       RestoreReached(led.versions, files, backups, id)}
    IN  {[id \in ids |-> "ok"]}
        \cup (IF faults < MaxFaults
              THEN {[id \in ids |-> IF id = failing THEN io ELSE "ok"] :
                        failing \in missing, io \in RestoreIO \ {"ok"}}
              ELSE {})

\* the failure of the plan, if it has one, is a failure the call has met
Met(plan, restore_io) ==
    \/ \A id \in DOMAIN plan : plan[id] = "ok"
    \/ restore_io \notin {"ok", "none"}

\* a call that leaves the ledger alone: r is what it did
Reads(c, op, version_id, version_id2, plan, r) ==
    /\ Met(plan, r.restore_io)
    /\ files' = r.files
    /\ Returns([Call(c, op, <<>>, version_id, r.result, "none", "none",
                     r.restore_io)
                   EXCEPT !.version_id2 = version_id2,
                          !.returned = r.returned])
    /\ UNCHANGED <<versions, disk, backups>>

CompareVersions(c) ==
    \E version_id1, version_id2 \in VersionIdInputs(versions[c]) :
        \E plan \in RestorePlans(versions[c]) :
            Reads(c, "compare_versions", version_id1, version_id2, plan,
                  compare_versions(versions[c], files, backups,
                                   version_id1, version_id2, plan))

\* None, written <<>>, every recorded id and one that is not recorded
ChangelogInputs(led) == VersionIdInputs(led) \cup {<<>>}

GenerateChangelog(c) ==
    \E from_version, to_version \in ChangelogInputs(versions[c]) :
        \E plan \in RestorePlans(versions[c]) :
            Reads(c, "generate_changelog", from_version, to_version, plan,
                  generate_changelog(versions[c], files, backups,
                                     from_version, to_version, plan))

\* the environment edits, creates or removes a live artifact file; no call of
\* the controller is the last thing that happened then
EnvironmentStep == Call("environment", "environment", <<>>, <<>>, "ok", "none", "none", "none")

WriteFile ==
    \E path \in Paths, content \in Contents :
        /\ files[path] # content
        /\ files' = [files EXCEPT ![path] = content]
        /\ Returns(EnvironmentStep)
        /\ UNCHANGED <<versions, disk, backups>>

DeleteFile ==
    \E path \in Paths :
        /\ files[path] # NoFile
        /\ files' = [files EXCEPT ![path] = NoFile]
        /\ Returns(EnvironmentStep)
        /\ UNCHANGED <<versions, disk, backups>>

Next ==
    \/ \E c \in Controllers : CreateVersion(c)
    \/ \E c \in Controllers : ActivateVersion(c)
    \/ \E c \in Controllers : MarkAsStable(c)
    \/ \E c \in Controllers : RollbackToVersion(c)
    \/ \E c \in Controllers : RollbackToLastStable(c)
    \/ WriteFile
    \/ DeleteFile

Spec == Init /\ [][Next]_vars

\* a controller is constructed on the repository as it is now; it takes the
\* place of the one there was, unless the constructor raises an error
Construct(c) ==
    /\ disk.kind = "invalid" => Cardinality(Archives(backups)) < MaxArchives
    /\ \E io \in Outcomes(disk.kind = "invalid", ArchiveIO) :
         /\ versions' = [versions EXCEPT ![c] =
                IF __init__(disk, backups, io).result = "ok"
                THEN __init__(disk, backups, io).versions ELSE @]
         /\ backups' = __init__(disk, backups, io).backups
         /\ Returns(Call(c, "__init__", <<>>, <<>>,
                         __init__(disk, backups, io).result,
                         "none", io, "none"))
         /\ UNCHANGED <<disk, files>>

\* the environment damages the ledger file
CorruptLedger ==
    \E kind \in {"invalid", "other_json", "unreadable"} :
        /\ disk.kind # kind
        /\ disk' = [kind |-> kind, data |-> EmptyLedger]
        /\ Returns(EnvironmentStep)
        /\ UNCHANGED <<versions, files, backups>>

\* controllers that follow one another on one repository, the artifacts and
\* the ledger file changing in between
NextRestart ==
    \/ \E c \in Controllers : CreateVersion(c)
    \/ \E c \in Controllers : Construct(c)
    \/ CorruptLedger
    \/ WriteFile
    \/ DeleteFile

SpecRestart == Init /\ [][NextRestart]_vars

\* a repository: the ledger of its controller, the ledger file, the live files
\* and the backup directory
Repository(led, dsk, fs, bk) ==
    [ledger |-> led, disk |-> dsk, files |-> fs, backups |-> bk]

\* the repository after a call of create_version, mark_as_stable or
\* activate_version during which no I/O operation fails, but the copy of the
\* snapshot if the call says so
Played(repo, call) ==
    IF call.op = "create_version"
    THEN (LET r == create_version(repo.ledger, repo.files, repo.backups,
                       repo.disk, call.path, call.version_type, "ok",
                       IF "backup_io" \in DOMAIN call THEN call.backup_io
                       ELSE "ok")
          IN  Repository(r.ledger, r.disk, r.files, r.backups))
    ELSE IF call.op = "mark_as_stable"
    THEN (LET r == mark_as_stable(repo.ledger, repo.disk, call.version_id,
                                  "ok")
          IN  Repository(r.ledger, r.disk, repo.files, repo.backups))
    ELSE (LET r == activate_version(repo.ledger, repo.files, repo.disk,
                                    call.version_id, "ok")
          IN  Repository(r.ledger, r.disk, repo.files, repo.backups))

\* the repository after a sequence of such calls
RECURSIVE Replay(_, _)
Replay(repo, script) ==
    IF script = <<>> THEN repo
    ELSE Replay(Played(repo, Head(script)), Tail(script))

\* up to MaxLoaded calls of create_version for the artifact at path
Creates(path) ==
    UNION {[1..n -> {[op |-> "create_version", path |-> path,
                      version_type |-> t] : t \in VersionTypes}] :
              n \in 0..MaxLoaded}

\* calls of mark_as_stable for the versions at these places of the ledger
RECURSIVE Marks(_, _)
Marks(vs, places) ==
    IF places = {} THEN <<>>
    ELSE LET i == CHOOSE k \in places : \A j \in places : k <= j
         IN  <<[op |-> "mark_as_stable", version_id |-> vs[i].version_id]>>
                 \o Marks(vs, places \ {i})

\* the variables hold this repository, its controller just constructed
Holds(repo) ==
    /\ faults = 0
    /\ versions = [c \in Controllers |-> repo.ledger]
    /\ disk = repo.disk
    /\ files = repo.files
    /\ backups = repo.backups
    /\ last = Call("vc", "__init__", <<>>, <<>>, "ok", "none", "none", "none")

\* a call of activate_version for the version created last, if there is one
\* and it is asked for
Activation(vs, activated) ==
    IF activated /\ vs # <<>>
    THEN <<[op |-> "activate_version", version_id |-> vs[Len(vs)].version_id]>>
    ELSE <<>>

\* the repository after these calls of mark_as_stable and activate_version
Settled(repo, places, activated) ==
    Replay(repo, Marks(repo.ledger.versions, places)
                     \o Activation(repo.ledger.versions, activated))

\* the repository in which a controller, started on no ledger file and these
\* live files, has made the calls of creates, has marked the versions at
\* places stable and has activated the version created last
Earlier(fs, creates, places, activated) ==
    Settled(Replay(Repository(EmptyLedger,
                              [kind |-> "absent", data |-> EmptyLedger],
                              fs, <<>>), creates),
            places, activated)

\* a controller constructed on a repository in which an earlier controller
\* has created versions of an artifact, marked some of them stable and
\* activated the newest or none
InitStable ==
    \E path \in Paths, fs \in [Paths -> FileStates] :
        \E creates \in Creates(path) :
            \E places \in SUBSET (1..Len(creates)), activated \in BOOLEAN :
                /\ fs[path] # NoFile
                /\ activated => creates # <<>>
                /\ Holds(Earlier(fs, creates, places, activated))

\* rollbacks to the last stable version, the artifacts changing in between
NextStable ==
    \/ \E c \in Controllers : RollbackLastStable(c, 2 * MaxLoaded + 3)
    \/ WriteFile
    \/ DeleteFile

SpecStable == InitStable /\ [][NextStable]_vars

\* calls of create_version for the artifact at path: the first, then so many
\* with 'major', with 'minor' and with 'patch'
Run(path, majors, minors, patches) ==
    [k \in 1..(1 + majors + minors + patches) |->
        [op |-> "create_version", path |-> path,
         version_type |-> IF k <= 1 + majors THEN "major"
                          ELSE IF k <= 1 + majors + minors THEN "minor"
                          ELSE "patch"]]

\* the runs of the initial ledgers: up to MaxMixed calls of any kinds, up to
\* MaxRun calls of one kind
Shapes ==
    {shape \in (0..MaxRun) \X (0..MaxRun) \X (0..MaxRun) :
        \/ shape[1] + shape[2] + shape[3] <= MaxMixed
        \/ \E k \in 1..3 : \A other \in (1..3) \ {k} : shape[other] = 0}

\* the controller constructed on the repository, its I/O reliable from then on
HoldsReliable(repo) ==
    /\ faults = MaxFaults
    /\ versions = [c \in Controllers |-> repo.ledger]
    /\ disk = repo.disk
    /\ files = repo.files
    /\ backups = repo.backups
    /\ last = Call("vc", "__init__", <<>>, <<>>, "ok", "none", "none", "none")

\* a controller constructed on a repository without a ledger file, or on one
\* in which an earlier controller has created up to MaxRun + 1 versions
InitRun ==
    \E path \in Paths, fs \in [Paths -> Contents] :
        \/ HoldsReliable(Earlier(fs, <<>>, {}, FALSE))
        \/ \E shape \in Shapes :
              HoldsReliable(Earlier(fs, Run(path, shape[1], shape[2], shape[3]),
                                    {}, FALSE))

\* create_version as the first call of the controller
CreateFirst(c) ==
    /\ last.op = "__init__"
    /\ Create(c, MaxRun + 2)

NextRun == \E c \in Controllers : CreateFirst(c)

SpecRun == InitRun /\ [][NextRun]_vars

\* the calls of creates, the copy of the snapshot failing in those at places
Unsaved(creates, places) ==
    [k \in 1..Len(creates) |->
        IF k \in places
        THEN [op |-> "create_version", path |-> creates[k].path,
              version_type |-> creates[k].version_type,
              backup_io |-> "open_error"]
        ELSE creates[k]]

\* a controller constructed on a repository in which an earlier controller
\* has created up to MaxLoaded versions of an artifact, the snapshots of up
\* to MaxUnsaved of them missing because their copies failed
InitChangelog ==
    \E path \in Paths, fs \in [Paths -> FileStates] :
        \E creates \in Creates(path) :
            \E places \in SUBSET (1..Len(creates)) :
                /\ fs[path] # NoFile
                /\ \A other \in Paths \ {path} : fs[other] = NoFile
                /\ Cardinality(places) <= MaxUnsaved
                /\ HoldsReliable(Earlier(fs, Unsaved(creates, places),
                                         {}, FALSE))

\* changelogs of a ledger, the artifact being removed in between
NextChangelog ==
    \/ \E c \in Controllers : GenerateChangelog(c)
    \/ DeleteFile

SpecChangelog == InitChangelog /\ [][NextChangelog]_vars

\* calls of create_version for the artifacts at two paths
Pair(path1, path2) ==
    <<[op |-> "create_version", path |-> path1, version_type |-> "minor"],
      [op |-> "create_version", path |-> path2, version_type |-> "minor"]>>

\* a controller constructed on a repository in which an earlier controller
\* has created two versions of artifacts that hold any of the texts
InitDiff ==
    \E path1, path2 \in Paths, fs \in [Paths -> Texts] :
        HoldsReliable(Earlier(fs, Pair(path1, path2), {}, FALSE))

\* comparisons of the versions, artifacts being removed in between
NextDiff ==
    \/ \E c \in Controllers : CompareVersions(c)
    \/ DeleteFile

SpecDiff == InitDiff /\ [][NextDiff]_vars

\* two controllers constructed on one empty repository, no I/O operation
\* going to fail
InitShared ==
    /\ faults = MaxFaults
    /\ versions = [c \in Instances |-> EmptyLedger]
    /\ disk = [kind |-> "absent", data |-> EmptyLedger]
    /\ files \in [Paths -> FileStates]
    /\ backups = <<>>
    /\ last = Call("vc", "__init__", <<>>, <<>>, "ok", "none", "none", "none")

\* the calls of the two controllers in any order, nothing keeping them apart
NextShared ==
    \/ \E c \in Instances : CreateWithin(c, MaxShared)
    \/ \E c \in Instances : Activate(c, MaxShared)
    \/ \E c \in Instances : Mark(c, MaxShared)
    \/ WriteFile
    \/ DeleteFile

SpecShared == InitShared /\ [][NextShared]_vars

\* the operations that write the ledger and those that only read it
NextAll ==
    \/ \E c \in Controllers : CreateWithin(c, MaxSteps)
    \/ \E c \in Controllers : Activate(c, MaxSteps)
    \/ \E c \in Controllers : Mark(c, MaxSteps)
    \/ \E c \in Controllers : Rollback(c, MaxSteps)
    \/ \E c \in Controllers : RollbackLastStable(c, MaxSteps)
    \/ \E c \in Controllers : CompareVersions(c)
    \/ \E c \in Controllers : GenerateChangelog(c)
    \/ WriteFile
    \/ DeleteFile

\* the state after construction when no I/O operation is going to fail
InitReliable ==
    /\ faults = MaxFaults
    /\ versions = [c \in Controllers |-> EmptyLedger]
    /\ disk = [kind |-> "absent", data |-> EmptyLedger]
    /\ files \in [Paths -> FileStates]
    /\ backups = <<>>
    /\ last = Call("vc", "__init__", <<>>, <<>>, "ok", "none", "none", "none")

SpecAll == InitReliable /\ [][NextAll]_vars

\* sequences of create_version calls on one controller, the artifacts changing
\* in between
NextCreate ==
    \/ \E c \in Controllers : CreateOnly(c)
    \/ WriteFile
    \/ DeleteFile

SpecCreate == Init /\ [][NextCreate]_vars


\* ------------------------------------------------------------ the claims
ActiveIndexes(vs) == {i \in 1..Len(vs) : vs[i].active}

\* the places of the ledger that record this id
Recorded(vs, version_id) == {i \in 1..Len(vs) : vs[i].version_id = version_id}

\* the ids that history entries of this action name
HistoryIds(led, action) ==
    {led.history[k].version_id :
        k \in {n \in 1..Len(led.history) : led.history[n].action = action}}

\* the live file of a version is missing or is not the content it was made from
Drifted(fs, version) ==
    \/ fs[version.file] = NoFile
    \/ \E content \in Contents :
         version.hash = sha256(content) /\ fs[version.file] # content

\* C1: in every reachable state of a controller that started from an empty
\* ledger, at most one version of the whole ledger, whatever its artifact
\* path, has active = true.
C1_AtMostOneActive ==
    \A c \in Controllers :
        Cardinality(ActiveIndexes(versions[c].versions)) <= 1

\* two versions of different artifacts, two different ids have been activated
\* one after the other, and one version is active
C1_Witness ==
    \E c \in Controllers :
        LET vs == versions[c].versions
        IN  /\ Len(vs) >= 2
            /\ vs[1].file # vs[2].file
            /\ Cardinality(HistoryIds(versions[c], "activate")) >= 2
            /\ Cardinality(ActiveIndexes(vs)) = 1

\* C2: right after a successful activate_version(X) exactly one version of
\* the ledger is active, and it is X, whatever was active before.
C2_ActivatedIsTheOnlyActive ==
    (last.op = "activate_version" /\ last.result = "ok") =>
        LET vs == versions[last.self].versions
        IN  /\ Cardinality(ActiveIndexes(vs)) = 1
            /\ \A i \in ActiveIndexes(vs) : vs[i].version_id = last.version_id

\* activate_version(X) has succeeded after another version had been activated
C2_Witness ==
    /\ last.op = "activate_version"
    /\ last.result = "ok"
    /\ \E other \in HistoryIds(versions[last.self], "activate") :
         other # last.version_id

\* C3: the id a successful create_version assigns is strictly greater, as a
\* tuple of integers, than every id already in the ledger, so that no two
\* versions of the ledger share an id.
C3_IdsStrictlyIncrease ==
    [][(last'.op = "create_version" /\ last'.result = "ok") =>
         LET old == versions[last'.self].versions
             new == versions'[last'.self].versions
         IN  /\ new = Append(old, new[Len(new)])
             /\ new[Len(new)].version_id = last'.version_id
             /\ \A i \in 1..Len(old) :
                  ListLess(VersionKey(old[i].version_id),
                           VersionKey(last'.version_id))
             /\ \A i, j \in 1..Len(new) :
                  i # j => new[i].version_id # new[j].version_id]_vars

\* a third version has been created
C3_Witness ==
    /\ last.op = "create_version"
    /\ last.result = "ok"
    /\ Len(versions[last.self].versions) >= 3

\* C4: activate_version of a version whose live file is missing or holds other
\* content than the version was created from fails with VersionIntegrityError
\* and changes neither the ledger (flags, history) nor the live files.
C4_IntegrityGate ==
    [][last'.op = "activate_version" =>
         \A i \in Recorded(versions[last'.self].versions, last'.version_id) :
             Drifted(files, versions[last'.self].versions[i]) =>
                 /\ last'.result = "VersionIntegrityError"
                 /\ versions' = versions
                 /\ files' = files]_vars

\* activate_version has been refused for a version whose file is there but
\* holds other content
C4_Witness ==
    /\ last.op = "activate_version"
    /\ last.result = "VersionIntegrityError"
    /\ \E i \in Recorded(versions[last.self].versions, last.version_id) :
         LET v == versions[last.self].versions[i]
         IN  files[v.file] # NoFile /\ sha256(files[v.file]) # v.hash


HasSnapshot(bk, version) ==
    BackupName(version.file, version.version_id) \in DOMAIN bk

MutatingOps ==
    {"create_version", "activate_version", "mark_as_stable",
     "rollback_to_version", "rollback_to_last_stable"}

\* C5: rollback_to_version of a recorded version whose live file was changed
\* or deleted succeeds, leaves the live file with exactly the content the
\* version was created from and leaves that version the only active one
\* (stated for rollbacks during which no I/O operation fails).
C5_RollbackRoundTrip ==
    [][(/\ last'.op = "rollback_to_version"
        /\ last'.save_io \in {"ok", "none"}
        /\ last'.restore_io \in {"ok", "none"}) =>
         LET vs == versions[last'.self].versions
         IN  \A i \in Recorded(vs, last'.version_id) :
                 Drifted(files, vs[i]) =>
                     /\ last'.result = "ok"
                     /\ files'[vs[i].file] # NoFile
                     /\ sha256(files'[vs[i].file]) = vs[i].hash
                     /\ ActiveIndexes(versions'[last'.self].versions) = {i}]_vars

\* C6: between operations every version of the ledger has its snapshot in
\* the backup directory, under (basename of its path, its id).
C6_EveryVersionHasItsSnapshot ==
    \A c \in Controllers :
        \A i \in 1..Len(versions[c].versions) :
            HasSnapshot(backups, versions[c].versions[i])

\* C7: a create_version whose snapshot step fails (source vanished, copy
\* error) reports a failure and leaves the ledger as it was: no version, no
\* history entry, and the ledger file not rewritten.
C7_CreateIsAllOrNothing ==
    [][(last'.op = "create_version"
            /\ last'.backup_io \notin {"ok", "none"}) =>
         /\ last'.result # "ok"
         /\ versions' = versions
         /\ disk' = disk]_vars

\* C8: after every successful mutating operation the ledger file holds exactly
\* the versions and the history in memory, so that a controller constructed
\* now loads the same ledger (stated for operations whose write of the ledger
\* file did not fail).
C8_DiskMatchesMemory ==
    (last.op \in MutatingOps /\ last.result = "ok" /\ last.save_io = "ok") =>
        _load_versions(disk, backups, "ok").versions = versions[last.self]

\* C9: an operation during which the write of the ledger file fails reports
\* a failure and does not keep its change of the ledger in memory.
C9_SaveFailureSurfaces ==
    [][last'.save_io \in {"open_error", "write_error"} =>
         /\ last'.result # "ok"
         /\ versions' = versions]_vars

\* C10: rollback_to_version reports VersionNotFoundError exactly when the id
\* is not recorded, reports the different error VersionIntegrityError when
\* the version is recorded but its live file fails integrity and its snapshot
\* is missing, and in both cases changes no flag and appends no history entry.
C10_RollbackFailuresAreDistinct ==
    [][last'.op = "rollback_to_version" =>
         LET vs == versions[last'.self].versions
             found == Recorded(vs, last'.version_id)
         IN  /\ (last'.result = "VersionNotFoundError") <=> (found = {})
             /\ found = {} => versions' = versions
             /\ \A i \in found :
                  (Drifted(files, vs[i]) /\ ~HasSnapshot(backups, vs[i])) =>
                      /\ last'.result = "VersionIntegrityError"
                      /\ versions' = versions]_vars

\* rollback_to_version has failed on a recorded version that has no snapshot
C10_Witness ==
    /\ last.op = "rollback_to_version"
    /\ last.result = "VersionIntegrityError"
    /\ \E i \in Recorded(versions[last.self].versions, last.version_id) :
         ~HasSnapshot(backups, versions[last.self].versions[i])


\* what a call reports when it raises an error: neither a normal return nor
\* the return value None
Raises(call) == call.result \notin {"ok", "None"}

HistoryActions == {"create", "activate", "mark_stable", "rollback"}

\* C15: every step leaves the history of a controller as it was or with
\* entries appended at its end, no entry changed, moved or removed, and every
\* entry names one of the actions create, activate, mark_stable, rollback.
C15_HistoryAppendOnly ==
    [][\A c \in Controllers :
         LET old == versions[c].history
             new == versions'[c].history
         IN  /\ Len(new) >= Len(old)
             /\ SubSeq(new, 1, Len(old)) = old
             /\ \A k \in 1..Len(new) : new[k].action \in HistoryActions]_vars

\* a rollback has appended its two entries to a history that had two, and the
\* history names all four actions
C15_Witness ==
    /\ last.op = "rollback_to_last_stable"
    /\ last.result = "ok"
    /\ Len(versions[last.self].history) = 4
    /\ {versions[last.self].history[k].action : k \in 1..4} = HistoryActions

\* C16: no step (create, activate, mark_as_stable, rollback with or without
\* restore, compare, changelog) changes the hash, the id, the timestamp or
\* the file path of a version that is in the ledger.
C16_RecordedFieldsNeverChange ==
    [][\A c \in Controllers :
         LET old == versions[c].versions
             new == versions'[c].versions
         IN  \A i \in 1..Len(old) :
                 /\ i <= Len(new)
                 /\ new[i].hash = old[i].hash
                 /\ new[i].version_id = old[i].version_id
                 /\ new[i].timestamp = old[i].timestamp
                 /\ new[i].file = old[i].file]_vars

\* a rollback has copied the snapshot of a version back over its live file,
\* and the hash of the version is still the hash of that content
C16_Witness ==
    /\ last.op = "rollback_to_version"
    /\ last.result = "ok"
    /\ last.restore_io = "ok"
    /\ \E i \in Recorded(versions[last.self].versions, last.version_id) :
         LET v == versions[last.self].versions[i]
         IN  v.hash = sha256(files[v.file])

LooksUpId == {"activate_version", "rollback_to_version", "mark_as_stable"}

\* C18: create_version for a path with no file fails with FileNotFoundError,
\* and activate_version, rollback_to_version, mark_as_stable and
\* compare_versions for an id that is not in the ledger fail with
\* VersionNotFoundError; each of these calls leaves the ledger with its
\* history, the ledger file, the snapshots and the live files as they were.
C18_MissingInputChangesNothing ==
    [][LET vs == versions[last'.self].versions
       IN  /\ (last'.op = "create_version" /\ files[last'.path] = NoFile) =>
                 /\ last'.result = "FileNotFoundError"
                 /\ UNCHANGED <<versions, disk, files, backups>>
           /\ (last'.op \in LooksUpId
                   /\ Recorded(vs, last'.version_id) = {}) =>
                 /\ last'.result = "VersionNotFoundError"
                 /\ UNCHANGED <<versions, disk, files, backups>>
           /\ (last'.op = "compare_versions"
                   /\ (\/ Recorded(vs, last'.version_id) = {}
                       \/ Recorded(vs, last'.version_id2) = {})) =>
                 /\ last'.result = "VersionNotFoundError"
                 /\ UNCHANGED <<versions, disk, files, backups>>]_vars

\* compare_versions of a recorded version, whose live file is missing and
\* whose snapshot is there, with an id that is not recorded has failed
C18_Witness ==
    /\ last.op = "compare_versions"
    /\ last.result = "VersionNotFoundError"
    /\ RestoreReached(versions[last.self].versions, files, backups,
                      last.version_id)
    /\ Recorded(versions[last.self].versions, last.version_id2) = {}


\* C11: no step changes the bytes of a snapshot that is in the backup
\* directory, also not a create_version of a controller that started from an
\* empty ledger after the ledger file was damaged: a snapshot is written once.
C11_SnapshotsAreNeverOverwritten ==
    [][\A name \in DOMAIN backups :
         name \in DOMAIN backups' /\ backups'[name] = backups[name]]_vars

\* C12: the constructor on a repository whose ledger file holds no ledger (no
\* JSON, JSON of another shape, unreadable) raises no error, yields a
\* controller with the empty ledger and leaves a copy of the bad file in the
\* backup directory.
C12_BadLedgerFileIsArchived ==
    [][(/\ last'.op = "__init__"
        /\ disk.kind \in {"invalid", "other_json", "unreadable"}) =>
         /\ last'.result = "ok"
         /\ versions'[last'.self] = EmptyLedger
         /\ \E name \in DOMAIN backups' \ DOMAIN backups :
              backups'[name] = disk]_vars


\* the places of the stable versions whose id is, as a tuple of integers, not
\* less than the id of any stable version
GreatestStable(vs) ==
    {i \in 1..Len(vs) :
        /\ vs[i].stable
        /\ \A j \in 1..Len(vs) :
             vs[j].stable => ~ListLess(VersionKey(vs[i].version_id),
                                       VersionKey(vs[j].version_id))}

\* C13: rollback_to_last_stable rolls back to the stable version whose id is
\* the greatest as a tuple of integers, whatever newer versions are not
\* stable, and when it succeeds that version is the one active version.
C13_LastStableIsGreatestStable ==
    [][(/\ last'.op = "rollback_to_last_stable"
        /\ get_stable_versions(versions[last'.self].versions) # <<>>) =>
         LET vs == versions[last'.self].versions
         IN  /\ \E i \in GreatestStable(vs) :
                  vs[i].version_id = last'.version_id
             /\ last'.result = "ok" =>
                  /\ ActiveIndexes(versions'[last'.self].versions)
                         = GreatestStable(vs)
                  /\ Cardinality(GreatestStable(vs)) = 1]_vars

\* of three versions the first two are stable and the third, which had been
\* activated, is not, and rollback_to_last_stable has made the second the
\* active version
C13_Witness ==
    /\ last.op = "rollback_to_last_stable"
    /\ last.result = "ok"
    /\ LET vs == versions[last.self].versions
       IN  /\ Len(vs) = 3
           /\ vs[3].version_id \in HistoryIds(versions[last.self], "activate")
           /\ vs[1].stable /\ vs[2].stable /\ ~vs[3].stable
           /\ vs[2].version_id = last.version_id
           /\ ActiveIndexes(vs) = {2}


\* the order of tuples of three integers
KeyLess(a, b) ==
    \/ a[1] < b[1]
    \/ a[1] = b[1] /\ a[2] < b[2]
    \/ a[1] = b[1] /\ a[2] = b[2] /\ a[3] < b[3]

\* the greatest of the ids of the ledger, as tuples of three integers
GreatestKey(vs) ==
    LET keys == {VersionKey(vs[i].version_id) : i \in 1..Len(vs)}
    IN  CHOOSE k \in keys : \A other \in keys \ {k} : KeyLess(other, k)

\* major -> (m+1, 0, 0), minor -> (m, n+1, 0), patch -> (m, n, p+1)
Incremented(key, version_type) ==
    IF version_type = "major" THEN <<key[1] + 1, 0, 0>>
    ELSE IF version_type = "minor" THEN <<key[1], key[2] + 1, 0>>
    ELSE <<key[1], key[2], key[3] + 1>>

\* C19: the id create_version assigns is v1.0.0 on an empty ledger, whatever
\* the kind, and else the greatest id of the ledger, greatest as a tuple of
\* integers and not as a string, incremented by the kind: major to
\* (m+1, 0, 0), minor to (m, n+1, 0), patch to (m, n, p+1); so 1.2.3 and
\* minor give 1.3.0, and 2.0.0 and patch give 2.0.1.
C19_AssignedId ==
    /\ _increment_version(<<"v", "1", ".", "2", ".", "3">>, "minor")
           = <<"v", "1", ".", "3", ".", "0">>
    /\ _increment_version(<<"v", "2", ".", "0", ".", "0">>, "patch")
           = <<"v", "2", ".", "0", ".", "1">>
    /\ \A c \in Controllers, standard_path \in Paths,
          version_type \in VersionTypes :
           files[standard_path] # NoFile =>
               LET vs == versions[c].versions
                   assigned == create_version(versions[c], files, backups,
                                   disk, standard_path, version_type,
                                   "ok", "ok").version_id
               IN  IF vs = <<>>
                   THEN assigned = <<"v", "1", ".", "0", ".", "0">>
                   ELSE /\ VersionKey(assigned)
                               = Incremented(GreatestKey(vs), version_type)
                        /\ assigned = FormatVersion(VersionKey(assigned)[1],
                                                    VersionKey(assigned)[2],
                                                    VersionKey(assigned)[3])
    /\ (last.op = "create_version" /\ last.result = "ok") =>
           LET vs == versions[last.self].versions
           IN  /\ vs[Len(vs)].version_id = last.version_id
               /\ \/ Len(vs) = 1 /\ VersionKey(last.version_id) = <<1, 0, 0>>
                  \/ /\ Len(vs) > 1
                     /\ \E version_type \in VersionTypes :
                          VersionKey(last.version_id) =
                              Incremented(GreatestKey(SubSeq(vs, 1, Len(vs) - 1)),
                                          version_type)

\* create_version has assigned v1.11.0 on a ledger that holds v1.9.0 and
\* v1.10.0, of which v1.9.0 is the greater string
C19_Witness ==
    /\ last.op = "create_version"
    /\ last.result = "ok"
    /\ last.version_id = <<"v", "1", ".", "1", "1", ".", "0">>
    /\ Recorded(versions[last.self].versions,
                <<"v", "1", ".", "9", ".", "0">>) # {}
    /\ Recorded(versions[last.self].versions,
                <<"v", "1", ".", "1", "0", ".", "0">>) # {}


\* the sections of one kind of a changelog, in their order
SectionsOf(changelog, kind) ==
    LET OfKind(entry) == entry.section = kind
    IN  SelectSeq(changelog, OfKind)

\* the ids of the ledger that lie between the bounds, None (written <<>>)
\* standing for no bound
Between(vs, from_version, to_version) ==
    {vs[i].version_id : i \in
        {k \in 1..Len(vs) :
            /\ from_version # <<>> =>
                   ~KeyLess(VersionKey(vs[k].version_id),
                            VersionKey(from_version))
            /\ to_version # <<>> =>
                   ~KeyLess(VersionKey(to_version),
                            VersionKey(vs[k].version_id))}}

\* the version sections list exactly these ids, in ascending order of their
\* integer tuples, and there is one diff section for each consecutive pair
ListsWithDiffs(changelog, ids) ==
    LET listed == SectionsOf(changelog, "version")
        diffs == SectionsOf(changelog, "diff")
    IN  /\ Len(listed) = Cardinality(ids)
        /\ {listed[k].version_id : k \in 1..Len(listed)} = ids
        /\ \A k \in 1..(Len(listed) - 1) :
               KeyLess(VersionKey(listed[k].version_id),
                       VersionKey(listed[k + 1].version_id))
        /\ Len(diffs) = IF listed = <<>> THEN 0 ELSE Len(listed) - 1
        /\ \A k \in 1..Len(diffs) :
               /\ diffs[k].version1 = listed[k].version_id
               /\ diffs[k].version2 = listed[k + 1].version_id

\* C20: generate_changelog without bounds on a ledger of n >= 1 versions lists
\* all n versions in ascending order of the integer tuples of their ids, with
\* exactly n - 1 diff sections, one for each consecutive pair; with bounds
\* that are recorded ids, the first not after the second, it lists exactly the
\* versions between them, with one diff section for each consecutive pair of
\* the range, and so none for a range of one version.
C20_ChangelogListsRange ==
    [][(/\ last'.op = "generate_changelog"
        /\ versions[last'.self].versions # <<>>
        /\ \A bound \in {last'.version_id, last'.version_id2} :
               bound = <<>> \/ Recorded(versions[last'.self].versions, bound) # {}
        /\ (last'.version_id # <<>> /\ last'.version_id2 # <<>>) =>
               ~KeyLess(VersionKey(last'.version_id2),
                        VersionKey(last'.version_id))) =>
           /\ last'.result = "ok"
           /\ ListsWithDiffs(last'.returned,
                  Between(versions[last'.self].versions,
                          last'.version_id, last'.version_id2))
           /\ (last'.version_id = <<>> /\ last'.version_id2 = <<>>) =>
                  /\ Len(SectionsOf(last'.returned, "version"))
                         = Len(versions[last'.self].versions)
                  /\ Len(SectionsOf(last'.returned, "diff"))
                         = Len(versions[last'.self].versions) - 1
           /\ last'.version_id = last'.version_id2 /\ last'.version_id # <<>> =>
                  /\ Len(SectionsOf(last'.returned, "version")) = 1
                  /\ SectionsOf(last'.returned, "diff") = <<>>]_vars

\* generate_changelog() on the versions v1.0.0, v1.1.0 and v2.0.0 has returned
\* a changelog of three version sections and two diff sections
C20_Witness ==
    /\ last.op = "generate_changelog"
    /\ last.result = "ok"
    /\ last.version_id = <<>>
    /\ last.version_id2 = <<>>
    /\ {versions[last.self].versions[i].version_id :
            i \in 1..Len(versions[last.self].versions)}
           = {<<"v", "1", ".", "0", ".", "0">>,
              <<"v", "1", ".", "1", ".", "0">>,
              <<"v", "2", ".", "0", ".", "0">>}
    /\ Len(SectionsOf(last.returned, "version")) = 3
    /\ Len(SectionsOf(last.returned, "diff")) = 2


\* compare_versions called now, no copy failing
Compared(c, version_id1, version_id2) ==
    compare_versions(versions[c], files, backups, version_id1, version_id2,
                     [id \in {version_id1, version_id2} |-> "ok"])

\* C21: when compare_versions(V1, V2) has returned, compare_versions(V2, V1)
\* returns the same similarity, and additions and deletions swapped.
C21_DiffSymmetry ==
    (last.op = "compare_versions" /\ last.result = "ok") =>
        LET back == Compared(last.self, last.version_id2, last.version_id)
        IN  /\ back.result = "ok"
            /\ back.returned.additions = last.returned.deletions
            /\ back.returned.deletions = last.returned.additions
            /\ back.returned.similarity = last.returned.similarity


\* C22: nothing keeps two controllers on one repository apart: a call that
\* saves writes the ledger of its own controller, as it was loaded at
\* construction and changed since, over whatever the file holds, and no
\* controller learns what another has saved; so updates get lost.
C22_SaveWritesOwnLedgerOnly ==
    [][(/\ last'.op \in {"create_version", "activate_version",
                         "mark_as_stable"}
        /\ last'.result = "ok") =>
           /\ disk' = [kind |-> "json", data |-> versions'[last'.self]]
           /\ \A other \in DOMAIN versions \ {last'.self} :
                  versions'[other] = versions[other]]_vars

\* the versions a ledger holds under this id
HeldAs(led, version_id) ==
    {led.versions[i] : i \in Recorded(led.versions, version_id)}

\* both controllers have saved a version v1.0.0, of different contents, and
\* the ledger file holds that of the one and not that of the other, nor its
\* history entry
C22_Witness ==
    /\ disk.kind = "json"
    /\ \E v1 \in HeldAs(versions["vc"], InitialVersionId),
          v2 \in HeldAs(versions["vc2"], InitialVersionId) :
           /\ v1.hash # v2.hash
           /\ v2 \in HeldAs(disk.data, InitialVersionId)
           /\ v1 \notin HeldAs(disk.data, InitialVersionId)
           /\ Len(disk.data.history) < Len(versions["vc"].history)
                                         + Len(versions["vc2"].history)


\* the active flags of the versions of a ledger
ActiveFlags(led) == [i \in 1..Len(led.versions) |-> led.versions[i].active]

\* C23: a call of rollback_to_version that fails leaves the live artifact
\* files, the active flag of every version and the history as they were.
C23_FailedRollbackChangesNothing ==
    [][(last'.op = "rollback_to_version" /\ last'.result # "ok") =>
           /\ files' = files
           /\ ActiveFlags(versions'[last'.self]) = ActiveFlags(versions[last'.self])
           /\ versions'[last'.self].history = versions[last'.self].history]_vars


\* C24: whenever rollback_to_version has copied the snapshot of a version
\* onto the live file, the file hashes to the recorded hash of the version
\* and the call does not fail with an integrity error.
C24_RestoredBytesMatchHash ==
    [][(last'.op = "rollback_to_version" /\ last'.restore_io = "ok") =>
           LET vs == versions[last'.self].versions
               version == vs[_find_version(vs, last'.version_id)]
           IN  /\ _verify_version_integrity(files', version)
               /\ last'.result # "VersionIntegrityError"]_vars


\* the actions and ids of the entries a step has appended to the history of
\* the controller c; <<"not appended">> if the history was changed otherwise
Appended(c) ==
    LET before == versions[c].history
        after == versions'[c].history
    IN  IF Len(after) >= Len(before)
           /\ SubSeq(after, 1, Len(before)) = before
        THEN [k \in 1..(Len(after) - Len(before)) |->
                 <<after[Len(before) + k].action,
                   after[Len(before) + k].version_id>>]
        ELSE <<"not appended">>

\* C25: a successful rollback_to_version(X) appends exactly two history
\* entries for X, an 'activate' entry and then a 'rollback' entry; a
\* successful activate_version(X), mark_as_stable(X) or create_version
\* appends exactly one entry, of the matching action.
C25_HistoryEntriesOfACall ==
    [][last'.result = "ok" =>
           /\ last'.op = "rollback_to_version" =>
                  Appended(last'.self) = <<<<"activate", last'.version_id>>,
                                           <<"rollback", last'.version_id>>>>
           /\ last'.op = "activate_version" =>
                  Appended(last'.self) = <<<<"activate", last'.version_id>>>>
           /\ last'.op = "mark_as_stable" =>
                  Appended(last'.self) = <<<<"mark_stable", last'.version_id>>>>
           /\ last'.op = "create_version" =>
                  Appended(last'.self) = <<<<"create", last'.version_id>>>>]_vars

\* rollback_to_version has succeeded after a restore of the live file, and the
\* history ends with its two entries
C25_Witness ==
    /\ last.op = "rollback_to_version"
    /\ last.result = "ok"
    /\ last.restore_io = "ok"
    /\ LET history == versions[last.self].history
       IN  /\ Len(history) = MaxHistory
           /\ history[Len(history) - 1].action = "activate"
           /\ history[Len(history)].action = "rollback"
           /\ history[Len(history) - 1].version_id = last.version_id
           /\ history[Len(history)].version_id = last.version_id


\* the (active, stable) flags of the versions of a ledger
Flags(led) ==
    [i \in 1..Len(led.versions) |->
        <<led.versions[i].active, led.versions[i].stable>>]

\* C26: mark_as_stable(X) for a recorded X succeeds whatever the live file of
\* X holds, also when it is missing or drifted; it sets stable on X and
\* leaves every active flag and every other stable flag as they were, so
\* that on an X that is stable already it leaves all flags as they were.
C26_MarkSetsOneFlag ==
    [][(/\ last'.op = "mark_as_stable"
        /\ Recorded(versions[last'.self].versions, last'.version_id) # {}) =>
           LET led == versions[last'.self]
               i == _find_version(led.versions, last'.version_id)
           IN  /\ last'.result = "ok"
               /\ Flags(versions'[last'.self])
                      = [Flags(led) EXCEPT ![i] = <<led.versions[i].active, TRUE>>]
               /\ led.versions[i].stable =>
                      Flags(versions'[last'.self]) = Flags(led)]_vars

\* mark_as_stable has succeeded a second time on a version whose live file
\* is missing or drifted
C26_Witness ==
    /\ last.op = "mark_as_stable"
    /\ last.result = "ok"
    /\ LET led == versions[last.self]
           i == _find_version(led.versions, last.version_id)
       IN  /\ ~_verify_version_integrity(files, led.versions[i])
           /\ Cardinality({k \in 1..Len(led.history) :
                  led.history[k] = HistoryEntry("mark_stable",
                                                last.version_id)}) = 2


\* the diff sections of a changelog whose comparison raised an error
Failed(changelog) ==
    {k \in 1..Len(SectionsOf(changelog, "diff")) :
        SectionsOf(changelog, "diff")[k].result # "ok"}

\* C27: generate_changelog does not abort when a comparison fails: it returns
\* a changelog that lists every version of the range and has a diff section
\* for every consecutive pair, the section of a pair whose comparison raised
\* an error noting the failure and the others holding their results; the
\* first pair's section fails exactly when compare_versions would.
C27_ChangelogSurvivesFailedDiff ==
    [][(/\ last'.op = "generate_changelog"
        /\ versions[last'.self].versions # <<>>
        /\ last'.version_id = <<>>
        /\ last'.version_id2 = <<>>) =>
           LET vs == versions[last'.self].versions
               diffs == SectionsOf(last'.returned, "diff")
           IN  /\ last'.result = "ok"
               /\ ListsWithDiffs(last'.returned,
                      {vs[i].version_id : i \in 1..Len(vs)})
               /\ \A k \in 1..Len(diffs) :
                      IF k \in Failed(last'.returned)
                      THEN diffs[k].returned = <<>>
                      ELSE diffs[k].returned.version1 = diffs[k].version1
               /\ diffs # <<>> =>
                      diffs[1].result
                          = Compared(last'.self, diffs[1].version1,
                                     diffs[1].version2).result]_vars

\* generate_changelog() has returned a changelog of three versions in which
\* the comparison of the first pair has failed, the live file missing and
\* neither snapshot there, and that of the second pair has not
C27_Witness ==
    /\ last.op = "generate_changelog"
    /\ last.result = "ok"
    /\ Len(SectionsOf(last.returned, "version")) = 3
    /\ Failed(last.returned) = {1}
    /\ SectionsOf(last.returned, "diff")[1].result = "FileNotFoundError"
    /\ SectionsOf(last.returned, "diff")[2].result = "ok"
    /\ \A k \in 1..2 :
           BackupName(versions[last.self].versions[k].file,
                      versions[last.self].versions[k].version_id)
               \notin DOMAIN backups


\* C28: compare_versions compares what was recorded for the two versions at
\* their creation: it reports a difference (additions + deletions > 0) when
\* their recorded hashes differ, also for two versions of one artifact path,
\* and none when they are equal.
C28_ComparesRecordedContent ==
    (last.op = "compare_versions" /\ last.result = "ok") =>
        LET vs == versions[last.self].versions
            version1 == vs[_find_version(vs, last.version_id)]
            version2 == vs[_find_version(vs, last.version_id2)]
        IN  (version1.hash # version2.hash)
                <=> (last.returned.additions + last.returned.deletions > 0)


\* the paths whose live file a step has changed
Written == {path \in Paths : files'[path] # files[path]}

\* the live file at path is missing before the step and holds the snapshot
\* of one of these versions of the path after it
RestoredFrom(path, candidates) ==
    /\ files[path] = NoFile
    /\ \E version \in candidates :
           /\ version.file = path
           /\ BackupName(path, version.version_id) \in DOMAIN backups
           /\ files'[path] = backups[BackupName(path, version.version_id)]

\* C29: create_version, activate_version and mark_as_stable change no live
\* artifact file; rollback_to_version changes only the file of its target and
\* only when the target is not intact; compare_versions and
\* generate_changelog change a live file only when it is missing, to the
\* snapshot of a version they compare, and never change the ledger.
C29_LiveFileWritesAreConfined ==
    [][LET led == versions[last'.self]
           target == _find_version(led.versions, last'.version_id)
           all == {led.versions[i] : i \in 1..Len(led.versions)}
       IN  /\ last'.op \in {"create_version", "activate_version",
                            "mark_as_stable"} => Written = {}
           /\ last'.op = "rollback_to_version" =>
                  IF target = 0 THEN Written = {}
                  ELSE /\ Written \subseteq {led.versions[target].file}
                       /\ _verify_version_integrity(files, led.versions[target])
                              => Written = {}
           /\ last'.op = "compare_versions" =>
                  /\ versions' = versions
                  /\ \A path \in Written :
                         RestoredFrom(path,
                             {v \in all : v.version_id \in
                                 {last'.version_id, last'.version_id2}})
           /\ last'.op = "generate_changelog" =>
                  /\ versions' = versions
                  /\ \A path \in Written : RestoredFrom(path, all)]_vars

\* compare_versions of two versions has restored a missing live file from
\* its snapshot, the live file of some version not being as recorded
C29_Witness ==
    /\ last.op = "compare_versions"
    /\ last.result = "ok"
    /\ last.restore_io = "ok"
    /\ last.version_id # last.version_id2
    /\ \E i \in 1..Len(versions[last.self].versions) :
           ~_verify_version_integrity(files, versions[last.self].versions[i])


\* a bound of generate_changelog as it counts: None for an id that is not
\* recorded
Omitted(led, bound) ==
    IF Recorded(led.versions, bound) = {} THEN <<>> ELSE bound

\* C30: generate_changelog with a from_version or a to_version that matches
\* no recorded version does not fail: it returns the changelog it returns for
\* that bound omitted, from the earliest version or to the latest.
C30_UnknownBoundIsOmitted ==
    [][(/\ last'.op = "generate_changelog"
        /\ \E bound \in {last'.version_id, last'.version_id2} :
               bound # <<>> /\ Recorded(versions[last'.self].versions, bound) = {}) =>
           LET led == versions[last'.self]
               from_version == Omitted(led, last'.version_id)
               to_version == Omitted(led, last'.version_id2)
           IN  /\ last'.result = "ok"
               /\ last'.returned =
                      generate_changelog(led, files, backups, from_version,
                          to_version,
                          [id \in VersionIdInputs(led) |-> "ok"]).returned
               /\ (led.versions # <<>> /\ from_version = <<>>) =>
                      /\ SectionsOf(last'.returned, "title")[1].version1
                             = sorted(led.versions)[1].version_id
                      /\ to_version = <<>> =>
                             ListsWithDiffs(last'.returned,
                                 {led.versions[i].version_id :
                                      i \in 1..Len(led.versions)})
               /\ (led.versions # <<>> /\ to_version = <<>>) =>
                      SectionsOf(last'.returned, "title")[1].version2
                          = sorted(led.versions)[Len(led.versions)].version_id]_vars

\* generate_changelog with a to_version that is not recorded has returned the
\* changelog of all three versions of the ledger
C30_Witness ==
    /\ last.op = "generate_changelog"
    /\ last.result = "ok"
    /\ last.version_id = <<>>
    /\ last.version_id2 = NoSuchVersion
    /\ Len(versions[last.self].versions) = 3
    /\ Recorded(versions[last.self].versions, NoSuchVersion) = {}
    /\ Len(SectionsOf(last.returned, "version")) = 3

====
